---- MODULE Spec2Model ----
(***************************************************************************)
(* data-mirage: the ML processing pipeline (app/services/ml/base.py), the  *)
(* orchestrator (app/services/ml_processor.py), the hyperparameter         *)
(* optimizer (app/services/ml/optimization.py) and the ensemble anomaly    *)
(* detector (app/services/ml/anomalies.py).                                *)
(*                                                                         *)
(* Each component is explored by its own specification (SpecPipeline,      *)
(* SpecTasks, SpecProc, SpecOpt, SpecEns); the variables of the other      *)
(* components stay at their idle value.                                    *)
(***************************************************************************)
EXTENDS Integers, Sequences, FiniteSets, TLC

VARIABLES
    pipeline,        \* one ProcessingPipeline object (SpecPipeline)
    tasks,           \* asyncio tasks created by submit_task, by instance
    active_tasks,    \* AsyncMLProcessor.active_tasks : task_id -> instance
    task_results,    \* AsyncMLProcessor.task_results : dict, insertion order
    task_semaphore,  \* value of AsyncMLProcessor.task_semaphore
    last_call,       \* the last AsyncMLProcessor method call and its outcome
    proc,            \* one MLProcessor.process_dataset call (SpecProc)
    opt,             \* one HyperparameterOptimizer call (SpecOpt)
    ens,             \* one EnsembleAnomalyDetector (SpecEns)
    api,             \* one dataset and the /ml/process requests for it (SpecApi)
    limiter,         \* the rate-limit key of one client and its requests (SpecLimiter)
    adapter          \* one algorithm adapter being configured by fit (SpecAdapters)

vars == <<pipeline, tasks, active_tasks, task_results, task_semaphore,
          last_call, proc, opt, ens, api, limiter, adapter>>

-----------------------------------------------------------------------------
(* Bounds of the exploration *)

NumStages == 3          \* stages handed to add_algorithm: the first NumStages of ExploredStages
MaxStageList == 2       \* longest explicit `stages` list passed to run
MaxCallbacks == 2       \* progress callbacks registered on the explored pipeline
MaxTasks == 2           \* submit_task calls that create a task
max_concurrent_tasks == 1   \* AsyncMLProcessor(max_concurrent_tasks=...)
ExtraRows == 1          \* rows of a dataset beyond the minimum / beyond max_samples
MaxMissing == 1         \* rows of a dataset with a missing feature value
MaxAnomalies == 2       \* rows the anomaly detector flags
MaxTrials == 3          \* parameter combinations of one optimization
MaxScore == 2           \* largest score of a trial
NumRows == 3            \* rows of the data an ensemble is asked about
MaxMembers == 2         \* detector configurations of an ensemble
MaxRequests == 3        \* /ml/process requests for one dataset
MaxConcurrent == 2      \* requests of one client handled at the same time

-----------------------------------------------------------------------------
(* Generic helpers: Python dicts keep insertion order *)

InSeq(x, s) == \E k \in 1..Len(s) : s[k] = x

Range(s) == {s[k] : k \in 1..Len(s)}

HasKey(d, key) == \E k \in 1..Len(d) : d[k].key = key

\* d[key] = val on a dict kept as a sequence of [key, val] items
DictSet(d, key, val) ==
    IF HasKey(d, key)
    THEN [k \in 1..Len(d) |-> IF d[k].key = key THEN [key |-> key, val |-> val] ELSE d[k]]
    ELSE Append(d, [key |-> key, val |-> val])

DictGet(d, key) == (CHOOSE k \in 1..Len(d) : d[k].key = key)

\* del d[key]
DictDel(d, key) == SelectSeq(d, LAMBDA it : it.key # key)

BoundedSeqs(S, n) == UNION {[1..m -> S] : m \in 0..n}

-----------------------------------------------------------------------------
(* ProcessingStage, in declaration order *)

StageOrder == <<"preprocessing", "dimensionality_reduction", "clustering",
                "anomaly_detection", "validation", "optimization", "finalization">>

StageRank(stage) == CHOOSE k \in 1..Len(StageOrder) : StageOrder[k] = stage

\* the stages the exploration registers and requests, most relevant first
ExploredStages == <<"dimensionality_reduction", "anomaly_detection", "preprocessing",
                    "clustering", "validation", "optimization", "finalization">>

ModelStages == {ExploredStages[k] : k \in 1..NumStages}

-----------------------------------------------------------------------------
(* ProcessingPipeline *)

\* result.data of an algorithm registered at `stage` when fitted on `input`
ResultData(stage, input) ==
    IF stage = "dimensionality_reduction" THEN "embedding" ELSE "out_" \o stage

\* ProcessingPipeline.__init__ with a fresh ProcessingContext
NewPipeline ==
    [ algorithms         |-> <<>>,     \* keys of self.algorithms
      results            |-> <<>>,     \* self.results, items [key |-> stage, val |-> data]
      progress_callbacks |-> 0,        \* len(self.progress_callbacks)
      ctx_stage          |-> "preprocessing",
      ctx_progress       |-> [num |-> 0, den |-> 1],
      intermediate_results |-> <<>>,
      \* the frame of run()
      pc           |-> "idle",         \* idle, cb, fit, returned, raised, cancelled
      stages       |-> <<>>,
      i            |-> 0,              \* enumerate index + 1
      current_data |-> "none",
      cb           |-> 0,              \* callback being awaited in _update_progress
      final        |-> FALSE,          \* the awaited _update_progress is the final one
      \* observations
      callback_warnings |-> 0,         \* "Progress callback failed" warnings logged
      calls        |-> <<>>,           \* fit_transform calls [stage, input, outcome]
      events       |-> <<>> ]          \* callback invocations [cb, stage, progress]

\* add_algorithm: self.algorithms[stage] = algorithm
add_algorithm(p, stage) ==
    IF InSeq(stage, p.algorithms) THEN p
    ELSE [p EXCEPT !.algorithms = Append(@, stage)]

\* add_progress_callback
add_progress_callback(p) == [p EXCEPT !.progress_callbacks = @ + 1]

\* the statements of run() after an _update_progress has returned
AfterProgress(p) ==
    IF p.final
    THEN [p EXCEPT !.pc = "returned"]
    ELSE [p EXCEPT !.pc = "fit",
                   !.calls = Append(@, [stage |-> p.stages[p.i],
                                        input |-> p.current_data,
                                        outcome |-> "pending"])]

\* _update_progress up to the first callback invocation
UpdateProgress(p, stage, progress, final) ==
    LET q == [p EXCEPT !.ctx_stage = stage, !.ctx_progress = progress, !.final = final]
    IN  IF q.progress_callbacks = 0
        THEN AfterProgress(q)
        ELSE [q EXCEPT !.pc = "cb", !.cb = 1,
                       !.events = Append(@, [cb |-> 1, stage |-> stage, progress |-> progress])]

\* (mutant) the loop reports the share of the stages still to run
RECURSIVE RunLoopCountdown(_)
RunLoopCountdown(p) ==
    IF p.i > Len(p.stages)
    THEN UpdateProgress(p, "finalization", [num |-> 100, den |-> 1], TRUE)
    ELSE IF ~InSeq(p.stages[p.i], p.algorithms)
         THEN RunLoopCountdown([p EXCEPT !.i = @ + 1])
         ELSE UpdateProgress(p, p.stages[p.i],
                             [num |-> (Len(p.stages) - p.i) * 100, den |-> Len(p.stages)], FALSE)

\* the for loop of run() from index p.i up to the next await
RECURSIVE RunLoop(_)
RunLoop(p) ==
    IF p.i > Len(p.stages)
    THEN UpdateProgress(p, "finalization", [num |-> 100, den |-> 1], TRUE)
    ELSE IF ~InSeq(p.stages[p.i], p.algorithms)
         THEN RunLoop([p EXCEPT !.i = @ + 1])
         ELSE UpdateProgress(p, p.stages[p.i],
                             [num |-> (p.i - 1) * 100, den |-> Len(p.stages)], FALSE)

\* run(data, stages): stagesArg is <<FALSE>> for None, <<TRUE, list>> otherwise
RunBegin(p, data, stagesArg) ==
    RunLoop([p EXCEPT !.stages = IF stagesArg[1] THEN stagesArg[2] ELSE p.algorithms,
                      !.current_data = data,
                      !.i = 1])

\* a callback has returned, or its Exception was handled: next callback
CallbackDone(p) ==
    IF p.cb < p.progress_callbacks
    THEN [p EXCEPT !.cb = @ + 1,
                   !.events = Append(@, [cb |-> p.cb + 1, stage |-> p.ctx_stage,
                                         progress |-> p.ctx_progress])]
    ELSE AfterProgress(p)

\* (mutant) the Exception of a callback leaves _update_progress and run
CallbackRaisesAborts(p) == [p EXCEPT !.pc = "raised", !.callback_warnings = @ + 1]

\* a callback raises an Exception: the except clause logs a warning
CallbackRaises(p) == CallbackDone([p EXCEPT !.callback_warnings = @ + 1])

SetOutcome(calls, o) == [calls EXCEPT ![Len(calls)].outcome = o]

\* fit_transform returned a result
FitReturns(p) ==
    LET stage == p.stages[p.i]
        data  == ResultData(stage, p.current_data)
    IN  RunLoop([p EXCEPT !.results = DictSet(@, stage, data),
                          !.current_data = IF stage \in {"dimensionality_reduction"}
                                           THEN data ELSE @,
                          !.intermediate_results = DictSet(@, stage, data),
                          !.calls = SetOutcome(@, "ok"),
                          !.i = @ + 1])

\* (mutant) the except clause of run() logs the error and goes on with the next stage
FitRaisesSwallowed(p) ==
    RunLoop([p EXCEPT !.calls = SetOutcome(@, "raised"), !.i = @ + 1])

\* fit_transform raised: logged and re-raised
FitRaises(p) == [p EXCEPT !.pc = "raised", !.calls = SetOutcome(@, "raised")]

\* get_processing_summary()["stages_completed"]
StagesCompleted(p) == Len(p.results)

-----------------------------------------------------------------------------
(* SpecPipeline: one pipeline, configured and then run once *)

IdleTasks == <<>>
IdleProc == [pc |-> "idle"]
IdleOpt == [pc |-> "idle", task |-> "none", algorithm |-> "none", n_trials |-> 0,
            results |-> <<>>, error |-> "none", best_params |-> 0, best_score |-> 0]
IdleEns == [pc |-> "idle", vote_threshold |-> 0, detectors |-> <<>>,
            detector_weights |-> [nums |-> <<>>, den |-> 1], is_fitted |-> FALSE,
            n |-> 0, j |-> 0, all_predictions |-> <<>>, all_scores |-> <<>>,
            data |-> {}, vote_anomalies |-> {}, score_anomalies |-> {}]
NoCall == [op |-> "none"]
IdleApi == [status |-> "uploaded", is_public |-> FALSE, has_data |-> FALSE,
            processed_data |-> "None",
            processing_results |-> 0, requests |-> <<>>]
IdleLimiter == [key |-> 0, expires |-> FALSE, expiries |-> 0, admitted |-> 0, requests |-> <<>>]
IdleAdapter == [pc |-> "idle"]

OthersIdleForPipeline ==
    /\ tasks = IdleTasks /\ active_tasks = <<>> /\ task_results = <<>>
    /\ task_semaphore = 0 /\ last_call = NoCall /\ api = IdleApi /\ limiter = IdleLimiter /\ adapter = IdleAdapter
    /\ proc = IdleProc /\ opt = IdleOpt /\ ens = IdleEns

InitPipeline == pipeline = NewPipeline /\ OthersIdleForPipeline

notPipeline == <<tasks, active_tasks, task_results, task_semaphore, last_call, proc, opt, ens, api, limiter, adapter>>

PAddAlgorithm ==
    /\ pipeline.pc = "idle"
    /\ \E stage \in ModelStages : pipeline' = add_algorithm(pipeline, stage)
    /\ UNCHANGED notPipeline

PAddCallback ==
    /\ pipeline.pc = "idle"
    /\ pipeline.progress_callbacks < MaxCallbacks
    /\ pipeline' = add_progress_callback(pipeline)
    /\ UNCHANGED notPipeline

PRun ==
    /\ pipeline.pc = "idle"
    /\ \E stagesArg \in {<<FALSE>>} \cup {<<TRUE, l>> : l \in BoundedSeqs(ModelStages, MaxStageList)} :
          pipeline' = RunBegin(pipeline, "features", stagesArg)
    /\ UNCHANGED notPipeline

PCallbackDone ==
    /\ pipeline.pc = "cb"
    /\ pipeline' = CallbackDone(pipeline)
    /\ UNCHANGED notPipeline

PCallbackRaises ==
    /\ pipeline.pc = "cb"
    /\ pipeline' = CallbackRaises(pipeline)
    /\ UNCHANGED notPipeline

PFitReturns ==
    /\ pipeline.pc = "fit"
    /\ pipeline' = FitReturns(pipeline)
    /\ UNCHANGED notPipeline

PFitRaises ==
    /\ pipeline.pc = "fit"
    /\ pipeline' = FitRaises(pipeline)
    /\ UNCHANGED notPipeline

NextPipeline ==
    \/ PAddAlgorithm
    \/ PAddCallback
    \/ PRun
    \/ PCallbackDone
    \/ PCallbackRaises
    \/ PFitReturns
    \/ PFitRaises

SpecPipeline == InitPipeline /\ [][NextPipeline]_vars

-----------------------------------------------------------------------------
(* Claims on ProcessingPipeline.run *)

\* C3: run executes the stages strictly in the fixed order Preprocessing,
\* DimensionalityReduction, Clustering, AnomalyDetection, Validation, Finalization,
\* whatever the order of the add_algorithm calls or of the stages list: the
\* fit_transform calls of a run are in strictly increasing stage rank.
C3_FixedStageOrder ==
    \A j, k \in 1..Len(pipeline.calls) :
        j < k => StageRank(pipeline.calls[j].stage) < StageRank(pipeline.calls[k].stage)

\* C4: the anomaly-detection stage always receives the preprocessed feature matrix
\* handed to run, never the output of the reduction stage.
C4_AnomalyInputIsFeatures ==
    \A k \in 1..Len(pipeline.calls) :
        pipeline.calls[k].stage = "anomaly_detection" => pipeline.calls[k].input = "features"

\* the requested stages that have an algorithm, in the order run() meets them
RegisteredStages(p) == SelectSeq(p.stages, LAMBDA s : InSeq(s, p.algorithms))

\* C13: a progress callback that raises never aborts or alters a run: whichever
\* callbacks raise, run calls fit_transform for exactly the requested registered
\* stages in order, fails only when a stage fails, returns a result for each of
\* those stages, and every progress update still invokes all callbacks in order.
C13_CallbackFailuresIgnored ==
    LET p   == pipeline
        reg == RegisteredStages(p)
        N   == p.progress_callbacks
    IN  p.pc # "idle" =>
          /\ Len(p.calls) <= Len(reg)
          /\ \A k \in 1..Len(p.calls) : p.calls[k].stage = reg[k]
          /\ p.pc = "raised" => (p.calls # <<>> /\ p.calls[Len(p.calls)].outcome = "raised")
          /\ p.pc = "returned" =>
                /\ Len(p.calls) = Len(reg)
                /\ \A k \in 1..Len(p.calls) : p.calls[k].outcome = "ok"
                /\ \A k \in 1..Len(reg) : HasKey(p.results, reg[k])
                /\ Len(p.events) = N * (Len(reg) + 1)
          /\ \A k \in 1..Len(p.events) : p.events[k].cb = ((k - 1) % N) + 1
          /\ p.callback_warnings <= Len(p.events)

\* a run with two callbacks returned although a callback raised
C13_Witness ==
    /\ pipeline.pc = "returned"
    /\ pipeline.callback_warnings >= 1
    /\ pipeline.progress_callbacks >= 2
    /\ Len(pipeline.calls) >= 1

\* comparison of two progress values kept as fractions
ProgressLeq(a, b) == a.num * b.den <= b.num * a.den

\* C14: during one run ProcessingContext.progress never decreases, for any list of
\* stages (including stages with no registered algorithm), and it is 100 when run
\* has returned.
C14_ProgressMonotone ==
    /\ [][ProgressLeq(pipeline.ctx_progress, pipeline'.ctx_progress)]_vars
    /\ [](pipeline.pc = "returned" => pipeline.ctx_progress = [num |-> 100, den |-> 1])

\* a returned run over a list holding an unregistered stage, with an update strictly
\* between 0 and 100 seen by a callback
C14_Witness ==
    /\ pipeline.pc = "returned"
    /\ Len(RegisteredStages(pipeline)) < Len(pipeline.stages)
    /\ \E k \in 1..Len(pipeline.events) :
          /\ pipeline.events[k].progress.num > 0
          /\ pipeline.events[k].progress.num < 100 * pipeline.events[k].progress.den
    /\ pipeline.ctx_progress = [num |-> 100, den |-> 1]

-----------------------------------------------------------------------------
(* AsyncMLProcessor *)

\* the caller-supplied task ids of the exploration
TaskIds == {"a", "b"}

CleanupBatch == 10

\* the pipeline a caller hands to submit_task: two stages, one progress callback
TaskPipeline ==
    add_progress_callback(
        add_algorithm(add_algorithm(NewPipeline, "dimensionality_reduction"),
                      "anomaly_detection"))

\* (mutant) the semaphore admits a task whether or not a slot is free
CanAcquireAlways(value) == TRUE

\* `async with self.task_semaphore`: the acquire goes through when a slot is free
CanAcquire(value) == value > 0

\* the record _run_task stores when pipeline.run returned
CompletedRecord(t, p) ==
    [status |-> "completed", results |-> <<TRUE, p.results>>,
     stages_completed |-> StagesCompleted(p), by |-> t]

\* the record _run_task stores when pipeline.run raised an Exception
FailedRecord(t, p) ==
    [status |-> "failed", results |-> <<FALSE>>,
     stages_completed |-> StagesCompleted(p), by |-> t]

\* the record cancel_task stores
CancelledRecord(t) ==
    [status |-> "cancelled", results |-> <<FALSE>>, stages_completed |-> 0, by |-> t]

\* (mutant) _run_task catches BaseException: a cancelled run is stored as failed
RunTaskStoresCatchAll(results, id, t, p) ==
    CASE p.pc = "returned"  -> DictSet(results, id, CompletedRecord(t, p))
      [] p.pc = "raised"    -> DictSet(results, id, FailedRecord(t, p))
      [] p.pc = "cancelled" -> DictSet(results, id, FailedRecord(t, p))
      [] OTHER              -> results

\* the except clauses of _run_task: what the task stores for the way run() ended.
\* asyncio.CancelledError is a BaseException: `except Exception` lets it through.
RunTaskStores(results, id, t, p) ==
    CASE p.pc = "returned"  -> DictSet(results, id, CompletedRecord(t, p))
      [] p.pc = "raised"    -> DictSet(results, id, FailedRecord(t, p))
      [] OTHER              -> results

\* the finally clause of _run_task
RunTaskFinally(active, id) == IF HasKey(active, id) THEN DictDel(active, id) ELSE active

\* get_task_status(task_id)["status"]
get_task_status(id) ==
    IF HasKey(active_tasks, id) THEN "running"
    ELSE IF HasKey(task_results, id) THEN task_results[DictGet(task_results, id)].val.status
    ELSE "not_found"

Finished(p) == p.pc \in {"returned", "raised", "cancelled"}

\* the task t resumes and its pipeline frame becomes q (held = it owns a slot)
TaskAdvance(t, q) ==
    LET id == tasks[t].id IN
    /\ tasks' = [tasks EXCEPT ![t].pipeline = q,
                              ![t].pc = IF Finished(q) THEN "done" ELSE "run"]
    /\ task_results' = RunTaskStores(task_results, id, t, q)
    /\ active_tasks' = IF Finished(q) THEN RunTaskFinally(active_tasks, id) ELSE active_tasks
    /\ last_call' = [op |-> "step", t |-> t]

\* submit_task(task_id, pipeline, data)
Submit(id) ==
    /\ Len(tasks) < MaxTasks
    /\ IF HasKey(active_tasks, id)
       THEN /\ last_call' = [op |-> "submit", id |-> id, raised |-> TRUE,
                             fresh |-> ~\E t \in 1..Len(tasks) : tasks[t].id = id]
            /\ UNCHANGED <<tasks, active_tasks>>
       ELSE /\ tasks' = Append(tasks, [id |-> id, pc |-> "created",
                                       cancel_requested |-> FALSE,
                                       events_at_cancel |-> 0,
                                       pipeline |-> TaskPipeline])
            /\ active_tasks' = DictSet(active_tasks, id, Len(tasks) + 1)
            /\ last_call' = [op |-> "submit", id |-> id, raised |-> FALSE,
                             fresh |-> ~\E t \in 1..Len(tasks) : tasks[t].id = id]
    /\ UNCHANGED <<task_results, task_semaphore>>

\* first step of _run_task: enter `async with`, start pipeline.run when a slot is free
TaskStart(t) ==
    /\ tasks[t].pc = "created" /\ ~tasks[t].cancel_requested
    /\ IF CanAcquire(task_semaphore)
       THEN /\ TaskAdvance(t, RunBegin(tasks[t].pipeline, "features", <<FALSE>>))
            /\ task_semaphore' = IF Finished(tasks'[t].pipeline)
                                 THEN task_semaphore ELSE task_semaphore - 1
       ELSE /\ tasks' = [tasks EXCEPT ![t].pc = "acquire"]
            /\ last_call' = [op |-> "step", t |-> t]
            /\ UNCHANGED <<active_tasks, task_results, task_semaphore>>

\* a task waiting in acquire() gets a slot and starts pipeline.run
TaskAcquire(t) ==
    /\ tasks[t].pc = "acquire" /\ ~tasks[t].cancel_requested
    /\ CanAcquire(task_semaphore)
    /\ TaskAdvance(t, RunBegin(tasks[t].pipeline, "features", <<FALSE>>))
    /\ task_semaphore' = IF Finished(tasks'[t].pipeline)
                         THEN task_semaphore ELSE task_semaphore - 1

\* the awaited progress callback of task t finished
TaskCallbackDone(t) ==
    /\ tasks[t].pc = "run" /\ ~tasks[t].cancel_requested
    /\ tasks[t].pipeline.pc = "cb"
    /\ TaskAdvance(t, CallbackDone(tasks[t].pipeline))
    /\ task_semaphore' = IF Finished(tasks'[t].pipeline)
                         THEN task_semaphore + 1 ELSE task_semaphore

\* the awaited fit_transform of task t returned
TaskFitReturns(t) ==
    /\ tasks[t].pc = "run" /\ ~tasks[t].cancel_requested
    /\ tasks[t].pipeline.pc = "fit"
    /\ TaskAdvance(t, FitReturns(tasks[t].pipeline))
    /\ task_semaphore' = IF Finished(tasks'[t].pipeline)
                         THEN task_semaphore + 1 ELSE task_semaphore

\* (mutant) a failed run leaves `async with` without releasing the semaphore
TaskFitRaisesLeaks(t) ==
    /\ tasks[t].pc = "run" /\ ~tasks[t].cancel_requested
    /\ tasks[t].pipeline.pc = "fit"
    /\ TaskAdvance(t, FitRaises(tasks[t].pipeline))
    /\ task_semaphore' = task_semaphore

\* the awaited fit_transform of task t raised
TaskFitRaises(t) ==
    /\ tasks[t].pc = "run" /\ ~tasks[t].cancel_requested
    /\ tasks[t].pipeline.pc = "fit"
    /\ TaskAdvance(t, FitRaises(tasks[t].pipeline))
    /\ task_semaphore' = task_semaphore + 1

\* the CancelledError requested by task.cancel() is thrown into task t
TaskCancelled(t) ==
    /\ tasks[t].cancel_requested
    /\ tasks[t].pc \in {"created", "acquire", "run"}
    /\ IF tasks[t].pc = "run"
       THEN /\ TaskAdvance(t, [tasks[t].pipeline EXCEPT !.pc = "cancelled"])
            /\ task_semaphore' = task_semaphore + 1
       ELSE /\ tasks' = [tasks EXCEPT ![t].pc = "done"]
            /\ last_call' = [op |-> "step", t |-> t]
            /\ UNCHANGED <<active_tasks, task_results, task_semaphore>>

\* cancel_task(task_id)
Cancel(id) ==
    /\ IF HasKey(active_tasks, id)
       THEN LET t == active_tasks[DictGet(active_tasks, id)].val IN
            /\ tasks' = [tasks EXCEPT ![t].cancel_requested = TRUE,
                                      ![t].events_at_cancel = Len(tasks[t].pipeline.events)]
            /\ active_tasks' = DictDel(active_tasks, id)
            /\ task_results' = DictSet(task_results, id, CancelledRecord(t))
            /\ last_call' = [op |-> "cancel", id |-> id, ret |-> TRUE, t |-> t]
       ELSE /\ last_call' = [op |-> "cancel", id |-> id, ret |-> FALSE, t |-> 0]
            /\ UNCHANGED <<tasks, active_tasks, task_results>>
    /\ UNCHANGED task_semaphore

\* cleanup_completed_tasks(): deletes the first CleanupBatch terminal results
cleanup_completed_tasks ==
    /\ Len(task_results) > 0
    /\ LET to_remove == SelectSeq(task_results,
                           LAMBDA it : it.val.status \in {"completed", "failed", "cancelled"})
           batch == {to_remove[k].key : k \in 1..(IF Len(to_remove) < CleanupBatch
                                                  THEN Len(to_remove) ELSE CleanupBatch)}
       IN task_results' = SelectSeq(task_results, LAMBDA it : it.key \notin batch)
    /\ last_call' = [op |-> "cleanup"]
    /\ UNCHANGED <<tasks, active_tasks, task_semaphore>>

-----------------------------------------------------------------------------
(* SpecTasks: one AsyncMLProcessor, its callers and its tasks *)

InitTasks ==
    /\ tasks = <<>> /\ active_tasks = <<>> /\ task_results = <<>>
    /\ task_semaphore = max_concurrent_tasks
    /\ last_call = NoCall /\ api = IdleApi /\ limiter = IdleLimiter /\ adapter = IdleAdapter
    /\ pipeline = NewPipeline /\ proc = IdleProc /\ opt = IdleOpt /\ ens = IdleEns

notTasks == <<pipeline, proc, opt, ens, api, limiter, adapter>>

TSubmit == (\E id \in TaskIds : Submit(id)) /\ UNCHANGED notTasks
TCancel == (\E id \in TaskIds : Cancel(id)) /\ UNCHANGED notTasks
TCleanup == cleanup_completed_tasks /\ UNCHANGED notTasks
TStart == (\E t \in 1..Len(tasks) : TaskStart(t)) /\ UNCHANGED notTasks
TAcquire == (\E t \in 1..Len(tasks) : TaskAcquire(t)) /\ UNCHANGED notTasks
TCallbackDone == (\E t \in 1..Len(tasks) : TaskCallbackDone(t)) /\ UNCHANGED notTasks
TFitReturns == (\E t \in 1..Len(tasks) : TaskFitReturns(t)) /\ UNCHANGED notTasks
TFitRaises == (\E t \in 1..Len(tasks) : TaskFitRaises(t)) /\ UNCHANGED notTasks
TCancelled == (\E t \in 1..Len(tasks) : TaskCancelled(t)) /\ UNCHANGED notTasks

NextTasks ==
    \/ TSubmit
    \/ TCancel
    \/ TCleanup
    \/ TStart
    \/ TAcquire
    \/ TCallbackDone
    \/ TFitReturns
    \/ TFitRaises
    \/ TCancelled

SpecTasks == InitTasks /\ [][NextTasks]_vars

\* Scheduling: the event loop resumes every task whose awaited step is ready, and
\* asyncio.Semaphore hands a freed slot to a waiter.
TaskStep(t) ==
    /\ t <= Len(tasks)
    /\ \/ TaskStart(t)
       \/ TaskCallbackDone(t)
       \/ TaskFitReturns(t)
       \/ TaskFitRaises(t)
       \/ TaskCancelled(t)
    /\ UNCHANGED notTasks

TaskGetsSlot(t) == t <= Len(tasks) /\ TaskAcquire(t) /\ UNCHANGED notTasks

FairTasks == \A t \in 1..MaxTasks : WF_vars(TaskStep(t)) /\ SF_vars(TaskGetsSlot(t))

SpecTasksFair == SpecTasks /\ FairTasks

-----------------------------------------------------------------------------
(* Claims on AsyncMLProcessor *)

\* the tasks inside pipeline.run, each holding a slot of the semaphore
Running == {t \in 1..Len(tasks) : tasks[t].pc = "run"}

RecordsBy(t) == {k \in 1..Len(task_results) : task_results[k].val.by = t}

\* C1: submit_task never raises for a fresh id (one no earlier submit used), and
\* the number of tasks inside pipeline.run never exceeds max_concurrent_tasks.
C1_ConcurrencyCap ==
    /\ Cardinality(Running) <= max_concurrent_tasks
    /\ (last_call.op = "submit" /\ last_call.fresh) => ~last_call.raised

\* C1 witness: more tasks than slots were submitted, every slot is taken and a
\* task waits in acquire().
C1_Witness ==
    /\ Len(tasks) > max_concurrent_tasks
    /\ Cardinality(Running) = max_concurrent_tasks
    /\ \E t \in 1..Len(tasks) : tasks[t].pc = "acquire"

\* C2: when cancel_task(id) has returned True, get_task_status(id) is 'cancelled'
\* and id is not in active_tasks; no task whose cancellation was requested ever
\* stores a 'completed' or 'failed' record; and a cancelled run invokes no
\* progress callback after the cancel.
C2_CancelIsFinal ==
    /\ (last_call.op = "cancel" /\ last_call.ret) =>
          /\ get_task_status(last_call.id) = "cancelled"
          /\ ~HasKey(active_tasks, last_call.id)
    /\ \A k \in 1..Len(task_results) :
          task_results[k].val.status \in {"completed", "failed"} =>
              ~tasks[task_results[k].val.by].cancel_requested
    /\ \A t \in 1..Len(tasks) :
          tasks[t].cancel_requested =>
              Len(tasks[t].pipeline.events) = tasks[t].events_at_cancel

\* C2 witness: a task was cancelled inside pipeline.run after it had emitted a
\* progress event, the CancelledError has been delivered, and its id reads cancelled.
C2_Witness ==
    \E t \in 1..Len(tasks) :
        /\ tasks[t].cancel_requested /\ tasks[t].pc = "done"
        /\ tasks[t].pipeline.pc = "cancelled"
        /\ tasks[t].events_at_cancel > 0
        /\ get_task_status(tasks[t].id) = "cancelled"

\* C5: if a stage's fit_transform raises, no later stage is started, no
\* FINALIZATION event is emitted, run ends by raising, and the record stored for
\* the run is 'failed' and carries no results.
C5_FailureAborts ==
    \A t \in 1..Len(tasks) :
        LET p == tasks[t].pipeline IN
        (\E k \in 1..Len(p.calls) : p.calls[k].outcome = "raised") =>
            /\ p.calls[Len(p.calls)].outcome = "raised"
            /\ \A e \in 1..Len(p.events) : p.events[e].stage # "finalization"
            /\ p.pc = "raised" /\ tasks[t].pc = "done"
            /\ \A k \in RecordsBy(t) :
                  /\ task_results[k].val.status = "failed"
                  /\ task_results[k].val.results = <<FALSE>>
            /\ (last_call = [op |-> "step", t |-> t]) => RecordsBy(t) # {}

\* C5 witness: the first of two stages raised and the failed record is stored.
C5_Witness ==
    \E t \in 1..Len(tasks) :
        /\ tasks[t].pipeline.pc = "raised"
        /\ Len(tasks[t].pipeline.calls) = 1
        /\ Len(tasks[t].pipeline.stages) = 2
        /\ \E k \in RecordsBy(t) : task_results[k].val.status = "failed"

\* C19: every key of task_results is written once and never rewritten: while a key
\* stays in the map its record does not change, under any sequence of submit_task,
\* cancel_task and task completions.
C19_ResultsWrittenOnce ==
    [][\A id \in TaskIds :
          (HasKey(task_results, id) /\ HasKey(task_results', id)) =>
              task_results'[DictGet(task_results', id)].val
                  = task_results[DictGet(task_results, id)].val]_vars

\* task t has stored a completed or failed record and is out of the registry
TerminalRecorded(t) ==
    /\ tasks[t].pc = "done"
    /\ \E k \in RecordsBy(t) : task_results[k].val.status \in {"completed", "failed"}
    /\ ~\E k \in 1..Len(active_tasks) : active_tasks[k].val = t

\* pipeline.run of task t has ended by returning or raising and t has left _run_task
RunEnded(t) ==
    /\ tasks[t].pc = "done"
    /\ tasks[t].pipeline.pc \in {"returned", "raised"}
    /\ ~\E k \in 1..Len(active_tasks) : active_tasks[k].val = t

\* C20: every accepted task that is never cancelled eventually ends its run, and
\* at that step it stores a completed or failed record and is out of the running
\* registry, also when it waited for a slot behind tasks that failed or were
\* cancelled.
C20_TasksTerminate ==
    /\ \A t \in 1..MaxTasks :
          (t <= Len(tasks)) ~> (t <= Len(tasks) /\ (tasks[t].cancel_requested \/ RunEnded(t)))
    /\ [][\A t \in 1..Len(tasks) :
             (tasks[t].pc # "done" /\ tasks'[t].pc = "done" /\ ~tasks[t].cancel_requested)
                 => (TerminalRecorded(t))']_vars

\* a task that was never cancelled has stored its record after an earlier task
\* was cancelled inside pipeline.run
C20_Witness ==
    \E t \in 1..Len(tasks) :
        /\ ~tasks[t].cancel_requested
        /\ TerminalRecorded(t)
        /\ \E u \in 1..(t - 1) : tasks[u].cancel_requested /\ tasks[u].pipeline.pc = "cancelled"

\* C21: a task that has been submitted, has not finished and was not itself
\* cancelled is registered in active_tasks under its id (so get_task_status
\* reports it as running), also when an earlier task of the same id was
\* cancelled before it was submitted.
C21_NewTaskStaysRegistered ==
    \A t \in 1..Len(tasks) :
        (tasks[t].pc # "done" /\ ~tasks[t].cancel_requested)
            => /\ HasKey(active_tasks, tasks[t].id)
               /\ active_tasks[DictGet(active_tasks, tasks[t].id)].val = t
               /\ get_task_status(tasks[t].id) = "running"

\* C22: a call of cleanup_completed_tasks leaves at most CleanupBatch (10)
\* terminal results in task_results, and the ones it leaves are the most
\* recently recorded ones, whatever the number of results before the call.
C22_CleanupKeepsMostRecent ==
    [][TCleanup =>
          LET n == Len(task_results)
              kept == IF n < CleanupBatch THEN n ELSE CleanupBatch
          IN /\ Len(task_results') <= CleanupBatch
             /\ task_results' = SubSeq(task_results, n - kept + 1, n)]_vars

-----------------------------------------------------------------------------
(* MLProcessor.process_dataset (app/services/ml_processor.py) *)

MinRows == 10

\* MLConfig.max_samples: Optional[int], ge=100
MinMaxSamples == 100

\* dataset sizes explored: below the minimum, at it, above it, above max_samples
RowCounts == {MinRows - 1, MinRows, MinRows + ExtraRows, MinMaxSamples + ExtraRows}

\* the rows the exploration lets be special (missing value, sampled out, anomalous)
CandidateRows(n) == {1, 2, n}

SubsetsUpTo(S, k) == {T \in SUBSET S : Cardinality(T) <= k}

Min(a, b) == IF a < b THEN a ELSE b

Reverse(q) == [k \in 1..Len(q) |-> q[Len(q) + 1 - k]]

\* the items of q that are not in `out`, in order
Filter(q, out) == SelectSeq(q, LAMBDA x : x \notin out)

\* pd.DataFrame(data): the index of row k is k
DataFrameIndex(n) == [k \in 1..n |-> k]

\* df.sample(n=max_samples): the rows not drawn and the order of the draw
Sample(index, excluded, reversed) ==
    IF reversed THEN Reverse(Filter(index, excluded)) ELSE Filter(index, excluded)

\* the handle_missing step of _preprocess_data on the index of feature_df
HandleMissing(index, missing, handle_missing) ==
    IF handle_missing = "drop" THEN Filter(index, missing) ELSE index

\* cluster label of the k-th row of reduced_data under a labelling
ClusterLabel(pattern, k) ==
    CASE pattern = "one"    -> 0
      [] pattern = "two"    -> k % 2
      [] pattern = "noise"  -> -1
      [] OTHER              -> IF k = 1 THEN -1 ELSE k % 2

LabelPatterns == {"one", "two", "noise", "mixed"}

\* uuid.uuid4() rendered by str(): 36 characters with hyphens, one per point
Uuid4(k) == [kind |-> "uuid4", n |-> k]

\* str(i) of an int: its decimal digits
StrOfInt(i) == [kind |-> "decimal", n |-> i]

\* _create_data_points: zip(reduced_data, cluster_labels, original_data), i from 0
create_data_points(n_original, n_reduced, pattern, anomaly_indices) ==
    [k \in 1..Min(n_reduced, n_original) |->
        [id            |-> Uuid4(k),
         position      |-> k,              \* reduced_data[i]
         cluster       |-> ClusterLabel(pattern, k),
         is_anomaly    |-> (k - 1) \in anomaly_indices,
         original_data |-> k]]             \* original_data[i]

\* (mutant) only the label of the first row gets a Cluster entry
create_cluster_info_first(n_reduced, pattern) ==
    {[id |-> ClusterLabel(pattern, k)] : k \in {j \in 1..Min(n_reduced, 1) : ClusterLabel(pattern, j) # -1}}

\* _create_cluster_info: one Cluster per np.unique(cluster_labels) other than -1
create_cluster_info(n_reduced, pattern) ==
    {[id |-> ClusterLabel(pattern, k)] : k \in {j \in 1..n_reduced : ClusterLabel(pattern, j) # -1}}

\* anomalies=[str(i) for i in anomaly_indices]
ResultAnomalies(anomaly_indices) == {StrOfInt(i) : i \in anomaly_indices}

NewProc(n, missing, has_features, handle_missing, max_samples, detect_anomalies) ==
    [ pc |-> "start",
      n |-> n,                        \* len(data)
      missing |-> missing,            \* rows with a missing value in a feature column
      has_features |-> has_features,  \* feature_columns resolves to a non-empty list
      handle_missing |-> handle_missing,
      max_samples |-> max_samples,    \* 0 for None
      detect_anomalies |-> detect_anomalies,
      feature_index |-> <<>>,         \* index of the feature DataFrame df
      n_reduced |-> 0,                \* rows of reduced_data
      pattern |-> "none",             \* cluster_labels
      anomaly_indices |-> {},
      anomaly_input |-> "none",       \* what _detect_anomalies was fitted on
      events |-> <<>>,                \* _update_progress calls [stage, progress]
      error |-> "none",
      result |-> [points |-> <<>>, clusters |-> {}, anomalies |-> {}, total_points |-> 0] ]

Progress(pr, stage, percent) ==
    [pr EXCEPT !.events = Append(@, [stage |-> stage, progress |-> percent])]

\* except (InsufficientDataError, UnsupportedMethodError): raise
Reraise(pr, error) == [pr EXCEPT !.pc = "raised", !.error = error]

\* except Exception: report the error event and raise MLProcessingError
FailRun(pr) == [Progress(pr, "error", 0) EXCEPT !.pc = "raised", !.error = "MLProcessingError"]

\* the input check and the first progress update
Validate(pr) ==
    IF pr.n < MinRows
    THEN Reraise(pr, "InsufficientDataError")
    ELSE [Progress(pr, "preprocessing", 10) EXCEPT !.pc = "preprocess"]

\* _preprocess_data and the next progress update
Preprocess(pr, excluded, reversed) ==
    LET df == DataFrameIndex(pr.n)
        sampled == IF pr.max_samples # 0 /\ Len(df) > pr.max_samples
                   THEN Sample(df, excluded, reversed) ELSE df
    IN  IF ~pr.has_features
        THEN FailRun(pr)
        ELSE [Progress(pr, "reduction", 30) EXCEPT
                !.pc = "reduce",
                !.feature_index = HandleMissing(sampled, pr.missing, pr.handle_missing)]

\* _perform_reduction and the next progress update
Reduce(pr, outcome) ==
    CASE outcome = "unsupported" -> Reraise(pr, "UnsupportedMethodError")
      [] outcome = "error"       -> FailRun(pr)
      [] OTHER -> [Progress(pr, "clustering", 60) EXCEPT
                      !.pc = "cluster", !.n_reduced = Len(pr.feature_index)]

\* _perform_clustering and the next progress update
Clustering(pr, outcome, pattern) ==
    CASE outcome = "unsupported" -> Reraise(pr, "UnsupportedMethodError")
      [] outcome = "error"       -> FailRun(pr)
      [] OTHER -> [Progress(pr, "anomalies", 80) EXCEPT
                      !.pc = "anomalies", !.pattern = pattern]

\* _detect_anomalies(df, config) when config.detect_anomalies, and the next update
DetectAnomalies(pr, outcome, found) ==
    IF ~pr.detect_anomalies
    THEN [Progress(pr, "finalizing", 90) EXCEPT !.pc = "finalize"]
    ELSE IF outcome = "error"
         THEN FailRun(pr)
         ELSE [Progress(pr, "finalizing", 90) EXCEPT
                  !.pc = "finalize", !.anomaly_indices = found,
                  !.anomaly_input = "features"]

\* points, metadata, the last progress update and the ProcessingResult
Finalize(pr) ==
    LET points == create_data_points(pr.n, pr.n_reduced, pr.pattern, pr.anomaly_indices)
    IN  [Progress(pr, "completed", 100) EXCEPT
            !.pc = "returned",
            !.result = [points |-> points,
                        clusters |-> create_cluster_info(pr.n_reduced, pr.pattern),
                        anomalies |-> ResultAnomalies(pr.anomaly_indices),
                        total_points |-> Len(points)]]

-----------------------------------------------------------------------------
(* SpecProc: one process_dataset call on a dataset and a configuration *)

InitProc ==
    /\ \E n \in RowCounts, has_features \in BOOLEAN, detect \in BOOLEAN,
          handle_missing \in {"drop", "mean", "median", "zero"},
          max_samples \in {0, MinMaxSamples} :
         \E missing \in SubsetsUpTo(CandidateRows(n), MaxMissing) :
            proc = NewProc(n, missing, has_features, handle_missing, max_samples, detect)
    /\ pipeline = NewPipeline /\ opt = IdleOpt /\ ens = IdleEns
    /\ tasks = IdleTasks /\ active_tasks = <<>> /\ task_results = <<>>
    /\ task_semaphore = 0 /\ last_call = NoCall /\ api = IdleApi /\ limiter = IdleLimiter /\ adapter = IdleAdapter

notProc == <<pipeline, tasks, active_tasks, task_results, task_semaphore, last_call, opt, ens, api, limiter, adapter>>

StageOutcomes == {"ok", "unsupported", "error"}

DValidate ==
    /\ proc.pc = "start"
    /\ proc' = Validate(proc)
    /\ UNCHANGED notProc

DPreprocess ==
    /\ proc.pc = "preprocess"
    /\ \E reversed \in BOOLEAN :
       \E excluded \in {E \in SUBSET CandidateRows(proc.n) :
                            Cardinality(E) = IF proc.max_samples # 0 /\ proc.n > proc.max_samples
                                             THEN proc.n - proc.max_samples ELSE 0} :
          proc' = Preprocess(proc, excluded, reversed)
    /\ UNCHANGED notProc

DReduce ==
    /\ proc.pc = "reduce"
    /\ \E outcome \in StageOutcomes : proc' = Reduce(proc, outcome)
    /\ UNCHANGED notProc

DClustering ==
    /\ proc.pc = "cluster"
    /\ \E outcome \in StageOutcomes, pattern \in LabelPatterns :
          proc' = Clustering(proc, outcome, pattern)
    /\ UNCHANGED notProc

DDetectAnomalies ==
    /\ proc.pc = "anomalies"
    /\ \E outcome \in {"ok", "error"} :
       \E rows \in SubsetsUpTo(CandidateRows(proc.n_reduced), MaxAnomalies) :
          proc' = DetectAnomalies(proc, outcome, {k - 1 : k \in rows})
    /\ UNCHANGED notProc

DFinalize ==
    /\ proc.pc = "finalize"
    /\ proc' = Finalize(proc)
    /\ UNCHANGED notProc

NextProc ==
    \/ DValidate
    \/ DPreprocess
    \/ DReduce
    \/ DClustering
    \/ DDetectAnomalies
    \/ DFinalize

SpecProc == InitProc /\ [][NextProc]_vars

-----------------------------------------------------------------------------
(* Claims on MLProcessor.process_dataset *)

\* C6: for a dataset of at least 10 rows, whatever the handle_missing strategy and
\* max_samples, a returned result has exactly one point per input row.
C6_OnePointPerRow ==
    proc.pc = "returned" => Len(proc.result.points) = proc.n

\* C7: result.anomalies lists point ids: every entry is the id of a point of
\* result.points, and the listed points are exactly those flagged is_anomaly.
C7_AnomaliesArePointIds ==
    proc.pc = "returned" =>
        LET points == proc.result.points IN
        /\ \A a \in proc.result.anomalies : \E k \in 1..Len(points) : points[k].id = a
        /\ {points[k].id : k \in {j \in 1..Len(points) : points[j].is_anomaly}}
              = proc.result.anomalies

\* C15: in every returned ProcessingResult each point's cluster is -1 or the id of
\* an entry of result.clusters.
C15_PointClustersListed ==
    proc.pc = "returned" =>
        \A k \in 1..Len(proc.result.points) :
            \/ proc.result.points[k].cluster = -1
            \/ \E c \in proc.result.clusters : c.id = proc.result.points[k].cluster

\* a result with a noise point and points of two listed clusters
C15_Witness ==
    /\ proc.pc = "returned"
    /\ Cardinality(proc.result.clusters) >= 2
    /\ \E k \in 1..Len(proc.result.points) : proc.result.points[k].cluster = -1
    /\ \E k \in 1..Len(proc.result.points) : proc.result.points[k].cluster = 1

\* C16: whenever a stage raises during process_dataset, whatever the error class,
\* the last progress event reported is the terminal error event, no stage has been
\* run twice, and the call raises without a result.
C16_StageFailureReported ==
    (proc.pc = "raised" /\ proc.events # <<>>) =>
        /\ proc.events[Len(proc.events)].stage = "error"
        /\ \A j, k \in 1..Len(proc.events) :
              proc.events[j].stage = proc.events[k].stage => j = k
        /\ proc.result.points = <<>>

\* C17: a dataset with fewer than 10 rows or without a usable feature column is
\* rejected before any stage runs: the call raises, no progress event has been
\* emitted and no algorithm has been invoked.
C17_RejectedBeforeAnyStage ==
    (proc.pc # "idle" /\ (proc.n < MinRows \/ ~proc.has_features)) =>
        /\ proc.pc \in {"start", "raised"}
        /\ proc.events = <<>>

\* C28: in a returned result the k-th point pairs the k-th embedding row with the
\* input row it was computed from: its original_data is the row of the feature
\* DataFrame that produced its position, also when rows were dropped or sampled.
C28_PointsPairWithSourceRow ==
    proc.pc = "returned" =>
        \A k \in 1..Len(proc.result.points) :
            proc.result.points[k].original_data
                = proc.feature_index[proc.result.points[k].position]

-----------------------------------------------------------------------------
(* HyperparameterOptimizer (app/services/ml/optimization.py) *)

Algorithms == {"tsne", "umap", "pca", "kmeans", "dbscan", "hdbscan"}

DRAlgorithms == {"tsne", "umap", "pca"}

ClusteringAlgorithms == {"kmeans", "dbscan", "hdbscan"}

\* _calculate_dr_score: sums of variances and explained-variance ratios, 0.0 on error
DRScores == 0..MaxScore

\* the entry _evaluate_dr_params appends for a trial that returned a score
ScoredTrial(params, score) == [params |-> params, score |-> score, error |-> FALSE]

\* the entry appended for a trial that raised: score -1.0 and an error field
ErroredTrial(params) == [params |-> params, score |-> -1, error |-> TRUE]

\* max(results, key=lambda x: x['score']): the first entry with the largest score
MaxByScore(results) ==
    CHOOSE k \in 1..Len(results) :
        /\ \A j \in 1..Len(results) : results[j].score <= results[k].score
        /\ \A j \in 1..(k - 1) : results[j].score < results[k].score

\* the statements after the evaluation: best_result and the OptimizationResult;
\* max() of an empty list raises ValueError
BuildResult(o) ==
    IF o.results = <<>>
    THEN [o EXCEPT !.pc = "raised", !.error = "ValueError"]
    ELSE LET best == o.results[MaxByScore(o.results)] IN
         [o EXCEPT !.pc = "returned",
                   !.best_params = best.params, !.best_score = best.score]

\* optimize_dimensionality_reduction up to the evaluation loop
StartDR(o, algorithm, n) ==
    IF algorithm \notin DRAlgorithms
    THEN [o EXCEPT !.pc = "raised", !.task = "dr", !.algorithm = algorithm,
                   !.error = "ValueError"]
    ELSE [o EXCEPT !.pc = "evaluating", !.task = "dr", !.algorithm = algorithm,
                   !.n_trials = n]

\* one iteration of the for loop of _evaluate_dr_params
EvalDRTrial(o, errored, score) ==
    LET params == Len(o.results) + 1 IN
    [o EXCEPT !.results = Append(@, IF errored THEN ErroredTrial(params)
                                    ELSE ScoredTrial(params, score))]

\* _evaluate_clustering_params hands the asyncio futures of loop.run_in_executor to
\* concurrent.futures.as_completed, which needs concurrent.futures.Future objects:
\* iterating it raises AttributeError before any result is collected (with no
\* combination it yields nothing and results stays empty)
EvaluateClusteringParams(n) ==
    IF n > 0 THEN [raised |-> TRUE, results |-> <<>>] ELSE [raised |-> FALSE, results |-> <<>>]

\* optimize_clustering
OptimizeClustering(o, algorithm, n) ==
    IF algorithm \notin ClusteringAlgorithms
    THEN [o EXCEPT !.pc = "raised", !.task = "clustering", !.algorithm = algorithm,
                   !.error = "ValueError"]
    ELSE LET ev == EvaluateClusteringParams(n)
             q  == [o EXCEPT !.task = "clustering", !.algorithm = algorithm,
                             !.n_trials = n, !.results = ev.results]
         IN  IF ev.raised
             THEN [q EXCEPT !.pc = "raised", !.error = "AttributeError"]
             ELSE BuildResult(q)

-----------------------------------------------------------------------------
(* SpecOpt: one optimization request *)

InitOpt ==
    /\ opt = IdleOpt
    /\ pipeline = NewPipeline /\ proc = IdleProc /\ ens = IdleEns
    /\ tasks = IdleTasks /\ active_tasks = <<>> /\ task_results = <<>>
    /\ task_semaphore = 0 /\ last_call = NoCall /\ api = IdleApi /\ limiter = IdleLimiter /\ adapter = IdleAdapter

notOpt == <<pipeline, tasks, active_tasks, task_results, task_semaphore, last_call, proc, ens, api, limiter, adapter>>

OOptimizeDR ==
    /\ opt.pc = "idle"
    /\ \E algorithm \in Algorithms, n \in 0..MaxTrials : opt' = StartDR(opt, algorithm, n)
    /\ UNCHANGED notOpt

OEvalDRTrial ==
    /\ opt.pc = "evaluating" /\ Len(opt.results) < opt.n_trials
    /\ \E errored \in BOOLEAN, score \in DRScores : opt' = EvalDRTrial(opt, errored, score)
    /\ UNCHANGED notOpt

OFinishDR ==
    /\ opt.pc = "evaluating" /\ Len(opt.results) = opt.n_trials
    /\ opt' = BuildResult(opt)
    /\ UNCHANGED notOpt

OOptimizeClustering ==
    /\ opt.pc = "idle"
    /\ \E algorithm \in Algorithms, n \in 0..MaxTrials :
          opt' = OptimizeClustering(opt, algorithm, n)
    /\ UNCHANGED notOpt

NextOpt ==
    \/ OOptimizeDR
    \/ OEvalDRTrial
    \/ OFinishDR
    \/ OOptimizeClustering

SpecOpt == InitOpt /\ [][NextOpt]_vars

-----------------------------------------------------------------------------
(* Claims on HyperparameterOptimizer *)

NotErrored(results) == {k \in 1..Len(results) : ~results[k].error}

\* C8: a returned OptimizationResult takes best_params/best_score from the first
\* trial, in candidate order, with the largest score among the trials that did not
\* error; a trial recorded with an error is never the best.
C8_BestIsFirstMaxOfValid ==
    opt.pc = "returned" =>
        \E b \in NotErrored(opt.results) :
            /\ opt.best_params = opt.results[b].params
            /\ opt.best_score = opt.results[b].score
            /\ \A k \in NotErrored(opt.results) : opt.results[k].score <= opt.best_score
            /\ \A k \in NotErrored(opt.results) :
                  opt.results[k].params < opt.results[b].params
                      => opt.results[k].score < opt.best_score

\* C9: when every trial of an optimization errored, the call raises instead of
\* returning an OptimizationResult.
C9_AllErroredRaises ==
    (opt.n_trials > 0 /\ Len(opt.results) = opt.n_trials /\ NotErrored(opt.results) = {})
        => opt.pc # "returned"

-----------------------------------------------------------------------------
(* EnsembleAnomalyDetector (app/services/ml/anomalies.py) *)

\* Numbers.  A weight list is kept as integer numerators over one denominator.
\* A score is a pair [m, e] standing for (m + e * 1e-8) / ScoreScale, the first-order
\* expansion of x / (r + 1e-8) = x/r - 1e-8 * x/r^2; pairs compare lexicographically.

RECURSIVE Fact(_)
Fact(k) == IF k <= 1 THEN 1 ELSE k * Fact(k - 1)

ScoreScale == Fact(NumRows - 1) * Fact(NumRows - 1)

RECURSIVE SumSeq(_)
SumSeq(q) == IF q = <<>> THEN 0 ELSE Head(q) + SumSeq(Tail(q))

Geq(a, b) == a.m > b.m \/ (a.m = b.m /\ a.e >= b.e)

Times(k, a) == [m |-> k * a.m, e |-> k * a.e]

\* vote_threshold, in tenths: the default 0.5 and the largest useful value 1.0
VoteThresholds == {5, 10}

\* the raw scores a member reports for n rows, flagged set A
\* ("anomalies_low": decision_function of scikit-learn is lowest on the outliers;
\* it gives all-equal scores when the member flags no row or every row)
ScoreShapes == {"anomalies_low", "graded"}

RawScores(shape, A, n) ==
    [i \in 1..n |->
        CASE shape = "flat" -> 0
          [] shape = "anomalies_low" -> IF i \in A THEN 0 ELSE 1
          [] shape = "graded" -> i - 1]

SeqMin(q) == CHOOSE x \in Range(q) : \A y \in Range(q) : x <= y

SeqMax(q) == CHOOSE x \in Range(q) : \A y \in Range(q) : x >= y

\* (scores - np.min(scores)) / (np.max(scores) - np.min(scores) + 1e-8)
Normalize(scores) ==
    LET lo == SeqMin(scores)
        r  == SeqMax(scores) - lo
    IN  [i \in 1..Len(scores) |->
            IF r = 0 THEN [m |-> 0, e |-> 0]
            ELSE [m |-> ((scores[i] - lo) * ScoreScale) \div r,
                  e |-> 0 - (((scores[i] - lo) * ScoreScale) \div (r * r))]]

\* anomaly_mask.astype(float)
MaskScores(A, n) == [i \in 1..n |-> [m |-> IF i \in A THEN ScoreScale ELSE 0, e |-> 0]]

\* the entry a member appends to all_scores; weight is the numerator of the member's
\* weight, the denominator being common to all members
MemberScores(out, n, weight) ==
    LET scores == IF out.kind \in {"decision_scores", "anomaly_scores"}
                  THEN Normalize(RawScores(out.shape, out.data, n))
                  ELSE MaskScores(out.data, n)
    IN  [i \in 1..n |-> Times(weight, scores[i])]

\* np.sum(all_scores, axis=0)
EnsembleScores(all_scores, n) ==
    [i \in 1..n |-> [m |-> SumSeq([k \in 1..Len(all_scores) |-> all_scores[k][i].m]),
                     e |-> SumSeq([k \in 1..Len(all_scores) |-> all_scores[k][i].e])]]

\* np.sum(all_predictions, axis=0)
EnsembleVotes(all_predictions, n) ==
    [i \in 1..n |-> Cardinality({k \in 1..Len(all_predictions) : i \in all_predictions[k]})]

KthSmallest(v, k) ==
    CHOOSE x \in Range(v) :
        /\ Cardinality({i \in 1..Len(v) : ~Geq(v[i], x)}) < k
        /\ Cardinality({i \in 1..Len(v) : Geq(x, v[i])}) >= k

\* ten times np.percentile(v, (1 - 0.1) * 100): linear interpolation at 0.9 * (n - 1)
Percentile90(v) ==
    LET n  == Len(v)
        lo == (9 * (n - 1)) \div 10
        fr == (9 * (n - 1)) % 10
        a  == KthSmallest(v, lo + 1)
        b  == KthSmallest(v, IF lo + 2 <= n THEN lo + 2 ELSE n)
    IN  [m |-> 10 * a.m + fr * (b.m - a.m), e |-> 10 * a.e + fr * (b.e - a.e)]

\* ensemble_scores >= score_threshold
ScoreAnomalies(scores) ==
    {i \in 1..Len(scores) : Geq(Times(10, scores[i]), Percentile90(scores))}

\* ensemble_votes >= len(self.detectors) * vote_threshold
VoteAnomalies(votes, n_detectors, vote_threshold) ==
    {i \in 1..Len(votes) : 10 * votes[i] >= n_detectors * vote_threshold}

FinalAnomaliesAnd(vote_anomalies, score_anomalies) == vote_anomalies \cap score_anomalies

\* final_anomalies = vote_anomalies | score_anomalies
FinalAnomalies(vote_anomalies, score_anomalies) == vote_anomalies \cup score_anomalies

\* __init__
NewEns(vote_threshold) == [IdleEns EXCEPT !.pc = "new", !.vote_threshold = vote_threshold]

\* fit: configs 1..m are tried in order, those in fitted succeed
EnsFit(e, m, fitted, n) ==
    LET added   == SelectSeq([k \in 1..m |-> k], LAMBDA k : k \in fitted)
        dets    == e.detectors \o added
        nums    == e.detector_weights.nums \o [k \in 1..Len(added) |-> e.detector_weights.den]
    IN  IF dets = <<>>
        THEN [e EXCEPT !.pc = "fit_raised", !.n = n]
        ELSE [e EXCEPT !.pc = "fitted", !.n = n, !.detectors = dets,
                       !.detector_weights = [nums |-> nums, den |-> SumSeq(nums)],
                       !.is_fitted = TRUE]

\* transform, up to the loop over the members
EnsTransformBegin(e) ==
    IF ~e.is_fitted \/ e.detectors = <<>>
    THEN [e EXCEPT !.pc = "raised"]
    ELSE [e EXCEPT !.pc = "transforming", !.j = 1,
                   !.all_predictions = <<>>, !.all_scores = <<>>]

EnsTransformMemberAbort(e, out) ==
    IF out.failed
    THEN [e EXCEPT !.pc = "raised", !.j = @ + 1]
    ELSE [e EXCEPT !.j = @ + 1,
                   !.all_predictions = Append(@, out.data),
                   !.all_scores = Append(@, MemberScores(out, e.n, e.detector_weights.nums[e.j]))]

\* one iteration of the loop: member j fails, or reports out
EnsTransformMember(e, out) ==
    IF out.failed
    THEN [e EXCEPT !.j = @ + 1]
    ELSE [e EXCEPT !.j = @ + 1,
                   !.all_predictions = Append(@, out.data),
                   !.all_scores = Append(@, MemberScores(out, e.n, e.detector_weights.nums[e.j]))]

\* transform, after the loop
EnsTransformEnd(e) ==
    IF e.all_predictions = <<>>
    THEN [e EXCEPT !.pc = "raised"]
    ELSE LET va == VoteAnomalies(EnsembleVotes(e.all_predictions, e.n),
                                 Len(e.detectors), e.vote_threshold)
             sa == ScoreAnomalies(EnsembleScores(e.all_scores, e.n))
         IN  [e EXCEPT !.pc = "returned", !.vote_anomalies = va, !.score_anomalies = sa,
                       !.data = FinalAnomalies(va, sa)]

-----------------------------------------------------------------------------
(* SpecEns: one ensemble, fitted and asked once *)

MemberOutcomes(n) ==
    {[failed |-> TRUE, data |-> {}, kind |-> "none", shape |-> "flat"]} \cup
    {[failed |-> FALSE, data |-> A, kind |-> "none", shape |-> "flat"] : A \in SUBSET (1..n)} \cup
    {[failed |-> FALSE, data |-> A, kind |-> k, shape |-> sh] :
        A \in SUBSET (1..n), k \in {"decision_scores", "anomaly_scores"}, sh \in ScoreShapes}

InitEns ==
    /\ \E vt \in VoteThresholds : ens = NewEns(vt)
    /\ pipeline = NewPipeline /\ proc = IdleProc /\ opt = IdleOpt
    /\ tasks = IdleTasks /\ active_tasks = <<>> /\ task_results = <<>>
    /\ task_semaphore = 0 /\ last_call = NoCall /\ api = IdleApi /\ limiter = IdleLimiter /\ adapter = IdleAdapter

notEns == <<pipeline, tasks, active_tasks, task_results, task_semaphore, last_call, proc, opt, api, limiter, adapter>>

EFit ==
    /\ ens.pc = "new"
    /\ \E m \in 1..MaxMembers, n \in (NumRows - 1)..NumRows :
          \E fitted \in SUBSET (1..m) : ens' = EnsFit(ens, m, fitted, n)
    /\ UNCHANGED notEns

\* fit is called a second time on the fitted ensemble with the same data and the
\* same detector_configs: the configs that could be fitted are fitted again.
\* (transform is explored on ensembles that were fitted once.)
ERefit ==
    /\ ens.pc = "fitted"
    /\ ens' = [EnsFit(ens, SeqMax(ens.detectors), Range(ens.detectors), ens.n)
                  EXCEPT !.pc = "refitted"]
    /\ UNCHANGED notEns

ETransformBegin ==
    /\ ens.pc \in {"new", "fitted"}
    /\ ens' = EnsTransformBegin(ens)
    /\ UNCHANGED notEns

ETransformMember ==
    /\ ens.pc = "transforming" /\ ens.j <= Len(ens.detectors)
    /\ \E out \in MemberOutcomes(ens.n) : ens' = EnsTransformMember(ens, out)
    /\ UNCHANGED notEns

ETransformEnd ==
    /\ ens.pc = "transforming" /\ ens.j > Len(ens.detectors)
    /\ ens' = EnsTransformEnd(ens)
    /\ UNCHANGED notEns

NextEns ==
    \/ EFit
    \/ ERefit
    \/ ETransformBegin
    \/ ETransformMember
    \/ ETransformEnd

SpecEns == InitEns /\ [][NextEns]_vars

-----------------------------------------------------------------------------
(* Claims on EnsembleAnomalyDetector *)

\* transform returned, every fitted member predicted, and all flagged one set
MembersAgree ==
    /\ ens.pc = "returned"
    /\ Len(ens.all_predictions) = Len(ens.detectors)
    /\ \A k \in 1..Len(ens.all_predictions) : ens.all_predictions[k] = ens.all_predictions[1]

\* C10 as stated: when every member flags exactly the same index set S, the final
\* anomaly set of the ensemble equals S, whatever scores the members report.
C10_AgreedSetIsFinal == MembersAgree => ens.data = ens.all_predictions[1]

\* C10: when every member flags exactly the same index set S (vote_threshold in
\* (0, 1]), the final anomaly set contains S, and every row it holds beyond S is a
\* row whose ensemble score reaches the 90th-percentile ensemble score.
C10_AgreedSetWithinFinal ==
    MembersAgree =>
        /\ ens.all_predictions[1] \subseteq ens.data
        /\ ens.data \ ens.all_predictions[1] =
              ScoreAnomalies(EnsembleScores(ens.all_scores, ens.n)) \ ens.all_predictions[1]

\* two members agree on a non-empty S and the final set holds a row outside S
C10_Witness ==
    /\ MembersAgree
    /\ Len(ens.detectors) >= 2
    /\ ens.all_predictions[1] # {}
    /\ ens.data # ens.all_predictions[1]

\* members that transform has asked so far and that failed to predict
FailedAtPredict == (ens.j - 1) - Len(ens.all_predictions)

C23_VoteOverPredictingMembers ==
    ens.pc = "returned" =>
        ens.data = VoteAnomalies(EnsembleVotes(ens.all_predictions, ens.n),
                                 Len(ens.all_predictions), ens.vote_threshold)
                   \cup ScoreAnomalies(EnsembleScores(ens.all_scores, ens.n))

\* C24: fit is idempotent: a second call of fit with the same data and
\* parameters leaves the ensemble with the same member list and the same
\* weights (equal, summing to 1) as the first call.
C24_FitIdempotent ==
    [][ERefit =>
          /\ ens'.detectors = ens.detectors
          /\ Len(ens'.detector_weights.nums) = Len(ens.detector_weights.nums)
          /\ \A k \in 1..Len(ens.detector_weights.nums) :
                 ens'.detector_weights.nums[k] * ens.detector_weights.den
                     = ens.detector_weights.nums[k] * ens'.detector_weights.den]_vars

-----------------------------------------------------------------------------
(* POST /ml/process/{dataset_id} (app/api/ml.py) and Dataset (app/models/dataset.py) *)

\* Dataset.set_processing
set_processing(d) == [d EXCEPT !.status = "processing"]

\* Dataset.set_processed
set_processed(d, results) == [d EXCEPT !.status = "processed", !.processing_results = results]

\* Dataset.set_error
set_error(d) == [d EXCEPT !.status = "error", !.processing_results = 0]

\* Dataset.is_processed.  The processed_data column is nullable, has no default and
\* is assigned nowhere in the application.
is_processed(d) == d.status = "processed" /\ d.processed_data # "None"

\* GET /ml/results/{dataset_id} for a caller with access: None, or the stored results
get_processing_results(d) ==
    IF ~is_processed(d) \/ d.processing_results = 0 THEN 0 ELSE d.processing_results

NewApi(is_public, has_data) == [IdleApi EXCEPT !.is_public = is_public, !.has_data = has_data]

\* the handler up to the call of ml_processor.process_dataset: permission and data
\* checks (an HTTPException is caught by the handler, which marks the dataset as
\* failed and re-raises), then set_processing and commit
ApiBegin(a, user) ==
    LET r == Len(a.requests) + 1 IN
    IF user # "owner" /\ ~a.is_public
    THEN [set_error(a) EXCEPT !.requests = Append(@, [user |-> user, pc |-> "raised", code |-> 403])]
    ELSE IF ~a.has_data
    THEN [set_error(a) EXCEPT !.requests = Append(@, [user |-> user, pc |-> "raised", code |-> 400])]
    ELSE [set_processing(a) EXCEPT !.requests = Append(@, [user |-> user, pc |-> "running", code |-> 0])]

\* process_dataset returned: the result is stored and the dataset marked processed
ApiRunReturns(a, r) ==
    [set_processed(a, r) EXCEPT !.requests[r].pc = "returned", !.requests[r].code = 200]

\* process_dataset raised MLProcessingError: set_error, commit, HTTP 400
ApiRunRaises(a, r) ==
    [set_error(a) EXCEPT !.requests[r].pc = "raised", !.requests[r].code = 400]

\* the MLProcessor.process_dataset runs in flight for the dataset
InFlight(a) == {r \in 1..Len(a.requests) : a.requests[r].pc = "running"}

-----------------------------------------------------------------------------
(* SpecApi: concurrent process requests for one dataset *)

InitApi ==
    /\ \E is_public \in BOOLEAN, has_data \in BOOLEAN : api = NewApi(is_public, has_data)
    /\ pipeline = NewPipeline /\ proc = IdleProc /\ opt = IdleOpt /\ ens = IdleEns
    /\ tasks = IdleTasks /\ active_tasks = <<>> /\ task_results = <<>>
    /\ task_semaphore = 0 /\ last_call = NoCall /\ limiter = IdleLimiter /\ adapter = IdleAdapter

notApi == <<pipeline, tasks, active_tasks, task_results, task_semaphore, last_call,
            proc, opt, ens, limiter, adapter>>

ABegin ==
    /\ Len(api.requests) < MaxRequests
    /\ \E user \in {"owner", "other"} : api' = ApiBegin(api, user)
    /\ UNCHANGED notApi

ARunReturns ==
    /\ \E r \in InFlight(api) : api' = ApiRunReturns(api, r)
    /\ UNCHANGED notApi

ARunRaises ==
    /\ \E r \in InFlight(api) : api' = ApiRunRaises(api, r)
    /\ UNCHANGED notApi

NextApi ==
    \/ ABegin
    \/ ARunReturns
    \/ ARunRaises

SpecApi == InitApi /\ [][NextApi]_vars

\* C12: at most one MLProcessor.process_dataset run per dataset id is in flight at
\* any time: a process request made while the dataset is 'processing' does not
\* start another run.
C12_OneRunInFlight == Cardinality(InFlight(api)) <= 1

\* C30: from set_processed(results) until the next set_processing or set_error the
\* dataset reads as processed and the results endpoint returns the stored
\* results; after set_error it does not read as processed and holds no results.
C30_ProcessedReadsAsProcessed ==
    /\ api.status = "processed" =>
          /\ is_processed(api)
          /\ api.processing_results # 0
          /\ get_processing_results(api) = api.processing_results
    /\ api.status = "error" => (~is_processed(api) /\ api.processing_results = 0)

-----------------------------------------------------------------------------
(* check_rate_limit (app/core/deps.py), the counter key of one client *)

max_requests == 30

MaxExpiries == 1     \* times the key's 60-second expiry fires

\* the Redis value of the key: 0 stands for a missing key (GET returns None);
\* expires tells whether the key carries a time to live; admitted counts the
\* requests let through since the key last expired
NewLimiter ==
    [IdleLimiter EXCEPT
        !.requests = [h \in 1..MaxConcurrent |-> [pc |-> "idle", current |-> 0, last |-> "none"]]]

\* current = await redis_conn.get(key)
RateGet(l, h) == [l EXCEPT !.requests[h].pc = "read", !.requests[h].current = l.key]

RateAdmit(l, h, key, expires) ==
    [l EXCEPT !.key = key, !.expires = expires, !.admitted = @ + 1,
              !.requests[h].pc = "idle", !.requests[h].last = "admitted"]

\* Redis removes the key when its time to live runs out
RateExpire(l) == [l EXCEPT !.key = 0, !.expires = FALSE, !.admitted = 0, !.expiries = @ + 1]

\* the rest of check_rate_limit, on the value read earlier: setex(key, 60, 1) for
\* None, HTTP 429 at max_requests or more, incr(key) otherwise.  INCR of a missing
\* key creates it with value 1 and no time to live; INCR of an existing key keeps
\* the key's time to live.
RateDecide(l, h) ==
    LET current == l.requests[h].current IN
    IF current = 0
    THEN RateAdmit(l, h, 1, TRUE)
    ELSE IF current >= max_requests
         THEN [l EXCEPT !.requests[h].pc = "idle", !.requests[h].last = "rejected"]
         ELSE RateAdmit(l, h, l.key + 1, l.key # 0 /\ l.expires)

-----------------------------------------------------------------------------
(* SpecLimiter: concurrent requests of one client *)

InitLimiter ==
    /\ limiter = NewLimiter /\ adapter = IdleAdapter
    /\ pipeline = NewPipeline /\ proc = IdleProc /\ opt = IdleOpt /\ ens = IdleEns
    /\ tasks = IdleTasks /\ active_tasks = <<>> /\ task_results = <<>>
    /\ task_semaphore = 0 /\ last_call = NoCall /\ api = IdleApi

notLimiter == <<pipeline, tasks, active_tasks, task_results, task_semaphore, last_call,
                proc, opt, ens, api, adapter>>

LGet ==
    /\ limiter.admitted < max_requests + MaxConcurrent
    /\ \E h \in 1..MaxConcurrent :
          /\ limiter.requests[h].pc = "idle"
          /\ limiter' = RateGet(limiter, h)
    /\ UNCHANGED notLimiter

LDecide ==
    /\ \E h \in 1..MaxConcurrent :
          /\ limiter.requests[h].pc = "read"
          /\ limiter' = RateDecide(limiter, h)
    /\ UNCHANGED notLimiter

LExpire ==
    /\ limiter.key # 0 /\ limiter.expires
    /\ limiter.expiries < MaxExpiries
    /\ limiter' = RateExpire(limiter)
    /\ UNCHANGED notLimiter

NextLimiter ==
    \/ LGet
    \/ LDecide
    \/ LExpire

SpecLimiter == InitLimiter /\ [][NextLimiter]_vars

\* C18: check_rate_limit admits at most 30 requests of one client key within one
\* 60-second window, for any interleaving of concurrent requests of that client.
C18_AtMostThirtyAdmitted == limiter.admitted <= max_requests

\* C29: a rate-limit counter key that exists always carries its expiry, for any
\* interleaving of concurrent check_rate_limit calls with the expiry of the key.
C29_CounterAlwaysExpires == limiter.key # 0 => limiter.expires

-----------------------------------------------------------------------------
(* Algorithm adapters: the fit-time parameter adjustments
   (app/services/ml/dimensionality.py, clustering.py, anomalies.py) and the
   optimizer's parameter spaces (app/services/ml/optimization.py) *)

MaxSamples == 32     \* largest number of rows handed to an adapter

\* data.shape[0] of the exploration
SampleCounts == 2..MaxSamples

\* the counts a caller asks for
Requested == {1, 2, 3, 5, 10, 50}

Max(a, b) == IF a > b THEN a ELSE b

\* a number num/den; t-SNE's (n_samples - 1) / 3 is a true division
Rat(num, den) == [num |-> num, den |-> den]

RatMin(a, b) == IF a.num * b.den <= b.num * a.den THEN a ELSE b

RatMax(a, b) == IF a.num * b.den >= b.num * a.den THEN a ELSE b

RatEq(a, b) == a.num * b.den = b.num * a.den

\* TSNEReducer.fit: max(5.0, min(params['perplexity'], (n_samples - 1) / 3))
TSNEPerplexity(perplexity, n_samples) ==
    RatMax(Rat(5, 1), RatMin(Rat(perplexity, 1), Rat(n_samples - 1, 3)))

\* UMAPReducer.fit: max(2, min(params['n_neighbors'], n_samples - 1))
UMAPNeighbors(n_neighbors, n_samples) == Max(2, Min(n_neighbors, n_samples - 1))

\* LocalOutlierFactorDetector.fit: max(2, min(params['n_neighbors'], n_samples - 1))
LOFNeighbors(n_neighbors, n_samples) == Max(2, Min(n_neighbors, n_samples - 1))

\* KMeansClusterer.fit: max(2, min(params['n_clusters'], n_samples - 1))
KMeansClusters(n_clusters, n_samples) == Max(2, Min(n_clusters, n_samples - 1))

\* DBSCANClusterer.fit: min(params['min_samples'], max(2, n_samples // 10))
DBSCANMinSamples(min_samples, n_samples) == Min(min_samples, Max(2, n_samples \div 10))

\* HDBSCANClusterer.fit: min(params['min_cluster_size'], max(2, n_samples // 10))
HDBSCANMinClusterSize(min_cluster_size, n_samples) ==
    Min(min_cluster_size, Max(2, n_samples \div 10))

\* AgglomerativeClusterer.fit: min(params['n_clusters'], max(2, n_samples - 1))
\* (only `if params['distance_threshold'] is None`)
AgglomerativeClusters(n_clusters, n_samples, distance_threshold) ==
    IF distance_threshold = "None"
    THEN Min(n_clusters, Max(2, n_samples - 1))
    ELSE n_clusters

\* GaussianMixtureClusterer.fit: min(params['n_components'], max(2, n_samples // 2))
GaussianMixtureComponents(n_components, n_samples) ==
    Min(n_components, Max(2, n_samples \div 2))
\* np.argmax: the first position (from 1) of the largest entry
ArgMax(q) == CHOOSE i \in 1..Len(q) : /\ \A k \in 1..Len(q) : q[k] <= q[i]
                                      /\ \A k \in 1..(i - 1) : q[k] < q[i]

\* np.diff
Diff(q) == [i \in 1..(Len(q) - 1) |-> q[i + 1] - q[i]]

\* KMeansClusterer._find_elbow_point (k_values is not empty)
find_elbow_point(k_values, inertias) ==
    IF Len(k_values) < 3
    THEN k_values[1]
    ELSE LET second_diffs == Diff(Diff(inertias))
             elbow_idx == (ArgMax(second_diffs) - 1) + 1
         IN  k_values[Min(elbow_idx, Len(k_values) - 1) + 1]

\* range(k_min, k_max + 1) with the defaults k_min = 2, k_max = min(10, n_samples // 2)
k_range(n_samples) ==
    LET k_max == Min(10, n_samples \div 2)
    IN  [i \in 1..Max(0, k_max - 1) |-> i + 1]

\* KMeansClusterer._find_optimal_k (k_range is not empty); silhouette scores in tenths
find_optimal_k(n_samples, inertias, silhouette_scores) ==
    LET ks == k_range(n_samples)
        optimal_k_elbow == find_elbow_point(ks, inertias)
        optimal_k_silhouette == ks[ArgMax(silhouette_scores)]
    IN  IF silhouette_scores[optimal_k_silhouette - 2 + 1] > 5
        THEN optimal_k_silhouette
        ELSE optimal_k_elbow

\* the adapter after a fit that configured its model
Configured(algorithm, n, by, requested, configured) ==
    [pc |-> "fitted", algorithm |-> algorithm, n |-> n, by |-> by,
     requested |-> requested, configured |-> configured,
     auto_k |-> "absent", optimal_k |-> 0, error |-> "none"]

\* the adapter after a fit that raised
FitFailed(algorithm, n, by, requested, error) ==
    [pc |-> "raised", algorithm |-> algorithm, n |-> n, by |-> by,
     requested |-> requested, configured |-> Rat(0, 1),
     auto_k |-> "absent", optimal_k |-> 0, error |-> error]

\* the values of params['auto_k'] a caller may pass, or not pass at all
AutoK == {"absent", "False", "True"}

\* KMeansClusterer.fit.  KMeans(**params) receives every key of params: scikit-learn's
\* KMeans has no auto_k argument, so the constructor raises TypeError when the key is there.
KMeansFit(n, by, n_clusters, auto_k, inertias, silhouette_scores) ==
    IF auto_k = "True" /\ k_range(n) = <<>>
    THEN [FitFailed("kmeans", n, by, Rat(n_clusters, 1), "IndexError")
             EXCEPT !.auto_k = auto_k]
    ELSE LET optimal_k == IF auto_k = "True"
                          THEN find_optimal_k(n, inertias, silhouette_scores) ELSE 0
             k == IF auto_k = "True" THEN optimal_k ELSE n_clusters
         IN  IF auto_k # "absent"
             THEN [FitFailed("kmeans", n, by, Rat(n_clusters, 1), "TypeError")
                      EXCEPT !.auto_k = auto_k, !.optimal_k = optimal_k]
             ELSE Configured("kmeans", n, by, Rat(n_clusters, 1),
                             Rat(KMeansClusters(k, n), 1))

\* the fit of the adapter of `algorithm` asked for the count `requested`
AdapterFit(algorithm, n, by, requested) ==
    CASE algorithm = "tsne" ->
            Configured(algorithm, n, by, Rat(requested, 1), TSNEPerplexity(requested, n))
      [] algorithm = "umap" ->
            Configured(algorithm, n, by, Rat(requested, 1), Rat(UMAPNeighbors(requested, n), 1))
      [] algorithm = "lof" ->
            Configured(algorithm, n, by, Rat(requested, 1), Rat(LOFNeighbors(requested, n), 1))
      [] algorithm = "kmeans" ->
            KMeansFit(n, by, requested, "absent", <<>>, <<>>)
      [] algorithm = "dbscan" ->
            Configured(algorithm, n, by, Rat(requested, 1), Rat(DBSCANMinSamples(requested, n), 1))
      [] algorithm = "hdbscan" ->
            Configured(algorithm, n, by, Rat(requested, 1),
                       Rat(HDBSCANMinClusterSize(requested, n), 1))
      [] algorithm = "agglomerative" ->
            Configured(algorithm, n, by, Rat(requested, 1),
                       Rat(AgglomerativeClusters(requested, n, "None"), 1))
      [] algorithm = "gaussian_mixture" ->
            Configured(algorithm, n, by, Rat(requested, 1),
                       Rat(GaussianMixtureComponents(requested, n), 1))

\* HyperparameterOptimizer._define_parameter_spaces: the values of the key that
\* _adjust_param_space_for_data looks at (min_cluster_size for hdbscan, which it leaves alone)
parameter_spaces(algorithm) ==
    CASE algorithm = "tsne"    -> <<5, 10, 15, 30, 50>>
      [] algorithm = "umap"    -> <<5, 10, 15, 20, 30, 50>>
      [] algorithm = "kmeans"  -> <<2, 3, 4, 5, 6, 7, 8, 9, 10>>
      [] algorithm = "dbscan"  -> <<3, 5, 7, 10, 15>>
      [] algorithm = "hdbscan" -> <<3, 5, 10, 15, 25>>

\* HyperparameterOptimizer._adjust_param_space_for_data
adjust_param_space_for_data(param_space, n_samples, algorithm) ==
    CASE algorithm = "tsne" ->
            LET max_perplexity == (n_samples - 1) \div 3
                kept == SelectSeq(param_space, LAMBDA p : p < max_perplexity)
            IN  IF kept = <<>> THEN <<Min(5, max_perplexity)>> ELSE kept
      [] algorithm = "umap" ->
            SelectSeq(param_space, LAMBDA k : k < n_samples - 1)
      [] algorithm = "kmeans" ->
            SelectSeq(param_space, LAMBDA k : k <= Min(n_samples - 1, 10))
      [] algorithm = "dbscan" ->
            SelectSeq(param_space, LAMBDA ms : ms <= Max(2, n_samples \div 10))
      [] OTHER -> param_space
-----------------------------------------------------------------------------
(* SpecAdapters: one adapter is constructed by a caller or by an optimizer trial
   and fitted on data of n rows *)

\* inertia_ of the temporary models over len candidates: a steep fall down to
\* candidate j, a slow one after it
InertiaCurve(len, j) ==
    [i \in 1..len |-> IF i <= j THEN 10 * (j - i) + (len - i) ELSE len - i]

\* silhouette_score of the temporary models, in tenths: peak at candidate q
SilhouetteCurve(len, q, peak) == [i \in 1..len |-> IF i = q THEN peak ELSE 1]

InitAdapters ==
    /\ \E n \in SampleCounts : adapter = [pc |-> "new", n |-> n]
    /\ pipeline = NewPipeline /\ proc = IdleProc /\ opt = IdleOpt /\ ens = IdleEns
    /\ tasks = IdleTasks /\ active_tasks = <<>> /\ task_results = <<>>
    /\ task_semaphore = 0 /\ last_call = NoCall /\ api = IdleApi /\ limiter = IdleLimiter

notAdapters == <<pipeline, tasks, active_tasks, task_results, task_semaphore, last_call,
                 proc, opt, ens, api, limiter>>

ATSNEFit ==
    /\ adapter.pc = "new"
    /\ \E p \in Requested : adapter' = AdapterFit("tsne", adapter.n, "caller", p)
    /\ UNCHANGED notAdapters

\* HAS_UMAP is false when umap-learn is not installed
AUMAPFit ==
    /\ adapter.pc = "new"
    /\ \E k \in Requested, HAS_UMAP \in BOOLEAN :
          adapter' = IF HAS_UMAP
                     THEN AdapterFit("umap", adapter.n, "caller", k)
                     ELSE FitFailed("umap", adapter.n, "caller", Rat(k, 1), "ImportError")
    /\ UNCHANGED notAdapters

ALOFFit ==
    /\ adapter.pc = "new"
    /\ \E k \in Requested : adapter' = AdapterFit("lof", adapter.n, "caller", k)
    /\ UNCHANGED notAdapters

AKMeansFit ==
    /\ adapter.pc = "new"
    /\ \E k \in Requested, auto_k \in AutoK :
          LET len == Len(k_range(adapter.n)) IN
          IF auto_k = "True" /\ len > 0
          THEN \E j \in 1..len, q \in 1..len, peak \in {3, 8} :
                  adapter' = KMeansFit(adapter.n, "caller", k, auto_k,
                                       InertiaCurve(len, j), SilhouetteCurve(len, q, peak))
          ELSE adapter' = KMeansFit(adapter.n, "caller", k, auto_k, <<>>, <<>>)
    /\ UNCHANGED notAdapters

ADBSCANFit ==
    /\ adapter.pc = "new"
    /\ \E ms \in Requested : adapter' = AdapterFit("dbscan", adapter.n, "caller", ms)
    /\ UNCHANGED notAdapters

\* HAS_HDBSCAN is false when hdbscan is not installed
AHDBSCANFit ==
    /\ adapter.pc = "new"
    /\ \E mcs \in Requested, HAS_HDBSCAN \in BOOLEAN :
          adapter' = IF HAS_HDBSCAN
                     THEN AdapterFit("hdbscan", adapter.n, "caller", mcs)
                     ELSE FitFailed("hdbscan", adapter.n, "caller", Rat(mcs, 1), "ImportError")
    /\ UNCHANGED notAdapters

AAgglomerativeFit ==
    /\ adapter.pc = "new"
    /\ \E k \in Requested, distance_threshold \in {"None", "set"} :
          adapter' = Configured("agglomerative", adapter.n, "caller", Rat(k, 1),
                                Rat(AgglomerativeClusters(k, adapter.n, distance_threshold), 1))
    /\ UNCHANGED notAdapters

AGaussianMixtureFit ==
    /\ adapter.pc = "new"
    /\ \E k \in Requested : adapter' = AdapterFit("gaussian_mixture", adapter.n, "caller", k)
    /\ UNCHANGED notAdapters

\* optimize_dimensionality_reduction / optimize_clustering, up to the adjusted space
OAdjustParamSpace ==
    /\ adapter.pc = "new"
    /\ \E algorithm \in {"tsne", "umap", "kmeans", "dbscan", "hdbscan"} :
          adapter' = [pc |-> "adjusted", n |-> adapter.n, algorithm |-> algorithm,
                      space |-> adjust_param_space_for_data(parameter_spaces(algorithm),
                                                            adapter.n, algorithm)]
    /\ UNCHANGED notAdapters

\* one trial: the adapter is built from a candidate of the adjusted space and fitted
OTrial ==
    /\ adapter.pc = "adjusted"
    /\ \E c \in 1..Len(adapter.space) :
          adapter' = AdapterFit(adapter.algorithm, adapter.n, "optimizer", adapter.space[c])
    /\ UNCHANGED notAdapters

NextAdapters ==
    \/ ATSNEFit
    \/ AUMAPFit
    \/ ALOFFit
    \/ AKMeansFit
    \/ ADBSCANFit
    \/ AHDBSCANFit
    \/ AAgglomerativeFit
    \/ AGaussianMixtureFit
    \/ OAdjustParamSpace
    \/ OTrial

SpecAdapters == InitAdapters /\ [][NextAdapters]_vars

-----------------------------------------------------------------------------
(* Claims on the adapters *)

\* C25: the parameters recorded for an optimizer trial are the parameters the
\* algorithm ran with: every candidate of the adjusted parameter space is a value
\* the adapter's own fit-time adjustment leaves unchanged.
C25_CandidatesSurviveFit ==
    (adapter.pc = "fitted" /\ adapter.by = "optimizer")
        => RatEq(adapter.configured, adapter.requested)

\* C26: after fit on n >= 2 samples the cluster or neighbour count handed to the
\* underlying algorithm is at most n - 1, whatever count was requested.
C26_CountsBelowSamples ==
    (adapter.pc = "fitted" /\ adapter.algorithm # "tsne")
        => adapter.configured.num <= (adapter.n - 1) * adapter.configured.den

\* C27: with auto_k requested, KMeansClusterer.fit completes and configures the
\* model with the K of the selection rule (silhouette-argmax K if its score
\* exceeds 0.5, else the elbow K).
C27_AutoKConfigured ==
    (adapter.pc \in {"fitted", "raised"} /\ adapter.algorithm = "kmeans"
        /\ adapter.auto_k = "True")
        => /\ adapter.pc = "fitted"
           /\ adapter.configured = Rat(adapter.optimal_k, 1)

====
